---- MODULE Spec2Model ----
(***************************************************************************)
(* Provider switching and credential validation of the chat application:   *)
(* Controller.handleProviderChange (src/src/js/controller.js) together     *)
(* with AiRouter and GeminiService.validateKey (src/src/js/ai.js).         *)
(*                                                                         *)
(* Execution is single threaded.  A handler runs without interruption up   *)
(* to an await on a network call; window.alert and window.prompt block.    *)
(* One action of the model is therefore one such uninterrupted run: the    *)
(* synchronous part of handleProviderChange, or the continuation of the    *)
(* background closure after one of its two awaited validateKey calls.      *)
(*                                                                         *)
(* Strings are sequences of one-character strings, so that trim() is a     *)
(* real conversion.  The value null of a cancelled prompt is Null.         *)
(***************************************************************************)
EXTENDS Integers, Sequences, FiniteSets, TLC

VARIABLES
    current,    \* AiRouter.current: the active provider
    apiKey,     \* GeminiService.apiKey: the in-memory key
    stored,     \* localStorage['ai_gemini_api_key'] (<<>> when absent)
    aiSelect,   \* value of the provider <select> element
    pending,    \* background closures suspended in an await of validateKey
    issued,     \* number of calls of handleProviderChange so far
    last,       \* the last step: which handler ran, its inputs, its View calls
    messages,   \* Model.messages: the chat, oldest first
    lastSaved,  \* Model.lastSaved
    editingId,  \* Controller.editingId (NoId when no inline edit is active)
    sending     \* number of handleSend calls suspended in await this.ai.reply

chatVars == <<messages, lastSaved, editingId, sending>>

vars == <<current, apiKey, stored, aiSelect, pending, issued, last,
          messages, lastSaved, editingId, sending>>

(***************************************************************************)
(* Bounds                                                                  *)
(***************************************************************************)
MaxLen == 2
MaxSwitches == 2
MaxPending == 2
MaxMsgs == 3
MaxImport == 1
MaxSending == 1

(***************************************************************************)
(* Strings                                                                 *)
(***************************************************************************)
Chars == {" ", "a"}

RECURSIVE StrUpTo(_)
StrUpTo(n) ==
    IF n = 0 THEN {<<>>}
    ELSE LET shorter == StrUpTo(n - 1)
         IN  shorter \cup {Append(s, c) : s \in {x \in shorter : Len(x) = n - 1}, c \in Chars}

Str == StrUpTo(MaxLen)

Null == <<"null">>

RECURSIVE TrimLeft(_)
TrimLeft(s) == IF s # <<>> /\ Head(s) = " " THEN TrimLeft(Tail(s)) ELSE s

RECURSIVE TrimRight(_)
TrimRight(s) ==
    IF s # <<>> /\ s[Len(s)] = " " THEN TrimRight(SubSeq(s, 1, Len(s) - 1)) ELSE s

Trim(s) == TrimRight(TrimLeft(s))

\* what the running program can have written to the key store: trimmed, not empty
Keys == {Trim(s) : s \in Str} \ {<<>>}

\* the values window.prompt can return
Answers == Str \cup {Null}

\* JavaScript's !x for a prompt result
Falsy(a) == a = Null \/ a = <<>>

(***************************************************************************)
(* Providers                                                               *)
(***************************************************************************)
\* the services object built at start-up
Services == {"eliza", "gemini"}

\* what a caller of handleProviderChange can pass: the registered ids and one
\* id that is not registered
ProviderArgs == Services \cup {"claude"}

\* config.LOCAL_PROXY
LOCAL_PROXY == ""

(***************************************************************************)
(* The View calls a handler makes (alert, prompt, setProviderUI)           *)
(***************************************************************************)
Alert(text, arg) == [call |-> "alert", text |-> text, arg |-> arg]
Prompt == [call |-> "prompt", text |-> "enter your gemini api key", arg |-> ""]
SetProviderUI(p) == [call |-> "setProviderUI", text |-> "", arg |-> p]

MsgUnknown == "unknown provider"
MsgEnterKey == "please enter your gemini api key to continue"
MsgNoKey == "no key entered. staying on"
MsgRejectedRetry == "api key rejected. please enter a new key"
MsgRejectedReverted == "api key rejected. reverted to"
MsgTransport == "network/CORS error validating gemini key"

(***************************************************************************)
(* GeminiService.validateKey                                               *)
(***************************************************************************)
\* what fetch can do: resolve with a response of some status, or reject
Statuses == {200, 401, 403, 500}
Responses == [threw : {FALSE}, status : Statuses] \cup {[threw |-> TRUE, status |-> 0]}

ResOk(r) == r.status >= 200 /\ r.status <= 299

\* "true" and "false" are the values the promise resolves to, "throw" is a
\* rejected promise.  An empty key resolves false without a request.  With
\* a proxy configured the request goes to the proxy and only its ok flag is
\* read; otherwise 401 and 403 resolve false and the rest resolves res.ok.
ValidateKeyVia(proxy, key, r) ==
    IF key = <<>> THEN "false"
    ELSE IF r.threw THEN "throw"
    ELSE IF proxy # "" THEN (IF ~ResOk(r) THEN "false" ELSE "true")
    ELSE IF r.status = 401 \/ r.status = 403 THEN "false"
    ELSE IF ResOk(r) THEN "true" ELSE "false"

\* validateKey under the configuration of the repository
ValidateKey(key, r) == ValidateKeyVia(LOCAL_PROXY, key, r)

(***************************************************************************)
(* The branches of the background closure of handleProviderChange.  Each   *)
(* yields the values the step leaves behind: the four cells it can write,  *)
(* the View calls it made (after the calls u made earlier in the step),    *)
(* the prompt answers it consumed and the closure it leaves suspended.     *)
(***************************************************************************)
\* a suspended closure: its captured prev and key, the await it is suspended
\* in, the replacement key under validation, the prompts it has shown so far
Task(epoch, prev, key, phase, newKey, prompts) ==
    [epoch |-> epoch, prev |-> prev, key |-> key, phase |-> phase, newKey |-> newKey,
     prompts |-> prompts]

\* CatchBranch without setGeminiKey(''): the in-memory key survives the revert
CatchBranch_KeepsKey(prev, u) ==
    [current |-> prev, apiKey |-> apiKey, stored |-> <<>>, aiSelect |-> prev,
     ui |-> u \o <<SetProviderUI(prev), Alert(MsgTransport, "")>>,
     answers |-> <<>>, spawn |-> {}]

\* catch (err): clear the key, go back to prev, report the network error
CatchBranch(prev, u) ==
    [current |-> prev, apiKey |-> <<>>, stored |-> <<>>, aiSelect |-> prev,
     ui |-> u \o <<SetProviderUI(prev), Alert(MsgTransport, "")>>,
     answers |-> <<>>, spawn |-> {}]

\* RevertRejected without "this.ai.provider = prev": only the selector goes back
RevertRejected_KeepsProvider(prev, u, answers) ==
    [current |-> current, apiKey |-> <<>>, stored |-> <<>>, aiSelect |-> prev,
     ui |-> u \o <<SetProviderUI(prev), Alert(MsgRejectedReverted, prev)>>,
     answers |-> answers, spawn |-> {}]

\* "revert to previous provider", reached with the key already cleared
RevertRejected(prev, u, answers) ==
    [current |-> prev, apiKey |-> <<>>, stored |-> <<>>, aiSelect |-> prev,
     ui |-> u \o <<SetProviderUI(prev), Alert(MsgRejectedReverted, prev)>>,
     answers |-> answers, spawn |-> {}]

\* if (!ok): clear the key, ask once more, validate the replacement
RejectBranch(t, retry, u) ==
    LET u1 == u \o <<Alert(MsgRejectedRetry, ""), Prompt>>
        newKey == IF Falsy(retry) THEN <<>> ELSE Trim(retry)
    IN  IF newKey # <<>>
        THEN [current |-> "gemini", apiKey |-> newKey, stored |-> <<>>,
              aiSelect |-> "gemini",
              ui |-> u1 \o <<SetProviderUI("gemini")>>,
              answers |-> <<retry>>,
              spawn |-> {Task(t.epoch, t.prev, t.key, "retry", newKey, t.prompts + 1)}]
        ELSE RevertRejected(t.prev, u1, <<retry>>)

\* Persist that always writes the closure's first key (setItem(key) where
\* setItem(newKey) is meant)
Persist_StoresFirstKey(t, k, quotaOk) ==
    IF quotaOk
    THEN [current |-> current, apiKey |-> apiKey, stored |-> t.key, aiSelect |-> aiSelect,
          ui |-> <<>>, answers |-> <<>>, spawn |-> {}]
    ELSE [current |-> t.prev, apiKey |-> <<>>, stored |-> <<>>, aiSelect |-> t.prev,
          ui |-> <<SetProviderUI(t.prev), Alert(MsgTransport, "")>>,
          answers |-> <<>>, spawn |-> {}]

\* localStorage.setItem(k) inside the try block: it can throw (quota), and
\* then the catch branch runs
Persist(t, k, quotaOk) ==
    IF quotaOk
    THEN [current |-> current, apiKey |-> apiKey, stored |-> k, aiSelect |-> aiSelect,
          ui |-> <<>>, answers |-> <<>>, spawn |-> {}]
    ELSE CatchBranch(t.prev, <<>>)

\* the continuation of "const ok = await svcG.validateKey()"
AfterFirst(t, result, retry, quotaOk) ==
    CASE result = "throw" -> CatchBranch(t.prev, <<>>)
      [] result = "false" -> RejectBranch(t, retry, <<>>)
      [] result = "true"  -> Persist(t, t.key, quotaOk)

\* AfterRetry that handles a second failure like the first one: it asks for
\* another key (answered "a") and validates again
AfterRetry_RetriesAgain(t, result, quotaOk) ==
    IF result = "true"
    THEN Persist(t, t.newKey, quotaOk)
    ELSE RejectBranch(t, <<"a">>, <<>>)

\* the continuation of "try { ok2 = await svcG.validateKey() } catch { ok2 = false }"
AfterRetry(t, result, quotaOk) ==
    IF result = "true"
    THEN Persist(t, t.newKey, quotaOk)
    ELSE RevertRejected(t.prev, <<>>, <<>>)

(***************************************************************************)
(* The synchronous part of handleProviderChange                            *)
(***************************************************************************)
\* UnknownProvider without the return: the handler goes on to "just switch"
\* and leaves the selector on the requested id
UnknownProvider_FallsThrough(prev) ==
    [current |-> current, apiKey |-> apiKey, stored |-> stored, aiSelect |-> "claude",
     ui |-> <<Alert(MsgUnknown, ""), SetProviderUI(prev), SetProviderUI("claude")>>,
     answers |-> <<>>, spawn |-> {}]

\* the provider existence check failed: alert, reset the selector, return
UnknownProvider(prev) ==
    [current |-> current, apiKey |-> apiKey, stored |-> stored, aiSelect |-> prev,
     ui |-> <<Alert(MsgUnknown, ""), SetProviderUI(prev)>>,
     answers |-> <<>>, spawn |-> {}]

\* JustSwitch that forgets the gemini key when gemini is left
JustSwitch_ClearsKey(provider) ==
    [current |-> provider, apiKey |-> <<>>, stored |-> <<>>, aiSelect |-> provider,
     ui |-> <<SetProviderUI(provider)>>,
     answers |-> <<>>, spawn |-> {}]

\* "other providers (eliza, etc.) - just switch"
JustSwitch(provider) ==
    [current |-> provider, apiKey |-> apiKey, stored |-> stored, aiSelect |-> provider,
     ui |-> <<SetProviderUI(provider)>>,
     answers |-> <<>>, spawn |-> {}]

\* NoKeyEntered after an optimistic switch made before the prompt
NoKeyEntered_AfterSwitch(prev, fromUser, u) ==
    [current |-> "gemini", apiKey |-> apiKey, stored |-> stored, aiSelect |-> prev,
     ui |-> u \o <<Alert(MsgNoKey, prev), SetProviderUI(prev)>>,
     answers |-> <<fromUser>>, spawn |-> {}]

\* the first prompt was cancelled or left empty
NoKeyEntered(prev, fromUser, u) ==
    [current |-> current, apiKey |-> apiKey, stored |-> stored, aiSelect |-> prev,
     ui |-> u \o <<Alert(MsgNoKey, prev), SetProviderUI(prev)>>,
     answers |-> <<fromUser>>, spawn |-> {}]

\* Optimistic that switches the router but leaves the selector for the
\* closure to set once the result is known
Optimistic_NotifiesLater(prev, epoch, key, u, answers, retry) ==
    IF key = <<>>
    THEN LET r == RejectBranch(Task(epoch, prev, key, "first", <<>>, Len(answers)), retry, u)
         IN  [r EXCEPT !.answers = answers \o r.answers]
    ELSE [current |-> "gemini", apiKey |-> key, stored |-> stored,
          aiSelect |-> aiSelect, ui |-> u, answers |-> answers,
          spawn |-> {Task(epoch, prev, key, "first", <<>>, Len(answers))}]

\* "optimistic switch", then the closure up to its first await.  With an
\* empty key validateKey resolves false without a request, and the closure
\* goes on before any other handler can run.
Optimistic(prev, epoch, key, u, answers, retry) ==
    LET u1 == u \o <<SetProviderUI("gemini")>>
    IN  IF key = <<>>
        THEN LET r == RejectBranch(Task(epoch, prev, key, "first", <<>>, Len(answers)), retry, u1)
             IN  [r EXCEPT !.answers = answers \o r.answers]
        ELSE [current |-> "gemini", apiKey |-> key, stored |-> stored,
              aiSelect |-> "gemini", ui |-> u1, answers |-> answers,
              spawn |-> {Task(epoch, prev, key, "first", <<>>, Len(answers))}]

\* GeminiSwitch without the key lookup: it asks for a key on every request
GeminiSwitch_AlwaysPrompts(prev, epoch, fromUser, retry) ==
    LET u == <<Alert(MsgEnterKey, ""), Prompt>>
    IN  IF Falsy(fromUser) THEN NoKeyEntered(prev, fromUser, u)
        ELSE Optimistic(prev, epoch, Trim(fromUser), u, <<fromUser>>, retry)

\* the key lookup: the in-memory key, else the stored one, else the prompt
GeminiSwitch(prev, epoch, fromUser, retry) ==
    LET key == IF apiKey # <<>> THEN apiKey ELSE stored
        u == <<Alert(MsgEnterKey, ""), Prompt>>
    IN  IF key # <<>> THEN Optimistic(prev, epoch, key, <<>>, <<>>, retry)
        ELSE IF Falsy(fromUser) THEN NoKeyEntered(prev, fromUser, u)
        ELSE Optimistic(prev, epoch, Trim(fromUser), u, <<fromUser>>, retry)

\* handleProviderChange without the existence check, over a router whose
\* setter takes any id
HandleProviderChange_NoCheck(provider, epoch, fromUser, retry) ==
    LET prev == current
    IN  IF provider = "gemini" THEN GeminiSwitch(prev, epoch, fromUser, retry)
        ELSE JustSwitch(provider)

HandleProviderChange(provider, epoch, fromUser, retry) ==
    LET prev == current
    IN  IF provider \notin Services THEN UnknownProvider(prev)
        ELSE IF provider = "gemini" THEN GeminiSwitch(prev, epoch, fromUser, retry)
        ELSE JustSwitch(provider)

(***************************************************************************)
(* Model: the messages and their persistence.  A message is a record of    *)
(* its id, text, role and edited flag; timeOk says whether its timestamp   *)
(* is one that new Date(timestamp) accepts (Date.now() always is; an       *)
(* imported message can have none).  A Model method is an operator from    *)
(* the state of the model to an effect: the new messages and lastSaved,    *)
(* the value returned, whether the watchers were notified, and whether     *)
(* the call ended in an exception.                                         *)
(***************************************************************************)
NoId == 0

Greeting ==
    [id |-> 1, text |-> <<"hello! i'm your eliza assistant. how can i help you today?">>,
     role |-> "bot", edited |-> FALSE, timeOk |-> TRUE]

\* makeId(): an id that nothing in use carries (the least such number)
MakeId(msgs) ==
    LET used == {msgs[i].id : i \in DOMAIN msgs} \cup {editingId}
    IN  CHOOSE n \in 1..(Cardinality(used) + 1) :
            n \notin used /\ \A k \in 1..(n - 1) : k \in used

\* String(text || '')
StringOr(text) == IF Falsy(text) THEN <<>> ELSE text

\* save(): lastSaved becomes Date.now() unless localStorage.setItem throws,
\* which is caught and logged
Save(ls, saveOk) == IF saveOk THEN "now" ELSE ls

\* View.renderItem calls new Date(m.timestamp).toISOString(), which throws a
\* RangeError for a timestamp that is not a valid time
RenderThrows(msgs) == \E i \in DOMAIN msgs : ~msgs[i].timeOk

\* a method that returns ret without changing anything
Unchanged(msgs, ls, ret) ==
    [messages |-> msgs, lastSaved |-> ls, ret |-> ret, wrote |-> FALSE,
     notified |-> FALSE, threw |-> FALSE]

\* a method that changed the messages to msgs: save(), notify(), return ret;
\* wrote says whether save() put the payload into localStorage; the one
\* watcher is the view's render (controller.js:24)
Changed(msgs, ls, ret, saveOk) ==
    [messages |-> msgs, lastSaved |-> Save(ls, saveOk), ret |-> ret, wrote |-> saveOk,
     notified |-> TRUE, threw |-> RenderThrows(msgs)]

AddMessage(msgs, ls, text, role, saveOk) ==
    LET t == Trim(StringOr(text))
    IN  IF t = <<>> THEN Unchanged(msgs, ls, "null")
        ELSE Changed(Append(msgs, [id |-> MakeId(msgs), text |-> t, role |-> role,
                                   edited |-> FALSE, timeOk |-> TRUE]),
                     ls, "msg", saveOk)

\* messages.find(x => x.id === id): the position of the first match, 0 if none
Find(msgs, id) ==
    IF \E i \in DOMAIN msgs : msgs[i].id = id
    THEN CHOOSE i \in DOMAIN msgs :
             msgs[i].id = id /\ \A j \in DOMAIN msgs : msgs[j].id = id => i <= j
    ELSE 0

UpdateMessage(msgs, ls, id, newText, saveOk) ==
    LET i == Find(msgs, id)
        t == Trim(StringOr(newText))
    IN  IF i = 0 \/ msgs[i].role # "user" THEN Unchanged(msgs, ls, "false")
        ELSE IF t = <<>> THEN Unchanged(msgs, ls, "false")
        ELSE Changed([msgs EXCEPT ![i].text = t, ![i].edited = TRUE],
                     ls, "true", saveOk)

\* messages.splice(i, 1)
Splice(msgs, i) == SubSeq(msgs, 1, i - 1) \o SubSeq(msgs, i + 1, Len(msgs))

DeleteMessage(msgs, ls, id, saveOk) ==
    LET i == Find(msgs, id)
    IN  IF i = 0 THEN Unchanged(msgs, ls, "false")
        ELSE Changed(Splice(msgs, i), ls, "true", saveOk)

ClearAll(msgs, ls, saveOk) == Changed(<<>>, ls, "undefined", saveOk)

(***************************************************************************)
(* Model.importJson.  The text of the file either fails to parse or        *)
(* parses to a document: something that is not an object with a messages   *)
(* array, or a list of entries with an optional lastSaved.  An entry is    *)
(* null or an object whose id can be missing, whose text can be something  *)
(* else than a string, whose role can be any string, and whose timestamp   *)
(* can be missing or no valid time.                                        *)
(***************************************************************************)
NotAString == <<"number">>

NullEntry ==
    [id |-> NoId, text |-> NotAString, role |-> "null", edited |-> FALSE, timeOk |-> FALSE]

ImportEntries ==
    {[id |-> 2, text |-> <<"a">>, role |-> "user", edited |-> FALSE, timeOk |-> TRUE],
     [id |-> 2, text |-> <<"a">>, role |-> "bot", edited |-> FALSE, timeOk |-> TRUE],
     [id |-> 3, text |-> <<"a">>, role |-> "user", edited |-> FALSE, timeOk |-> FALSE],
     [id |-> NoId, text |-> <<"a">>, role |-> "user", edited |-> FALSE, timeOk |-> TRUE],
     [id |-> 2, text |-> NotAString, role |-> "user", edited |-> FALSE, timeOk |-> TRUE],
     [id |-> 2, text |-> <<"a">>, role |-> "system", edited |-> FALSE, timeOk |-> TRUE],
     NullEntry}

RECURSIVE ListsUpTo(_, _)
ListsUpTo(S, n) ==
    IF n = 0 THEN {<<>>}
    ELSE LET shorter == ListsUpTo(S, n - 1)
         IN  shorter \cup {Append(l, e) : l \in {x \in shorter : Len(x) = n - 1}, e \in S}

\* the files handed to importJson
JsonTexts ==
    {[parses |-> FALSE, isObject |-> FALSE, hasList |-> FALSE, messages |-> <<>>,
      lastSaved |-> "null"],
     [parses |-> TRUE, isObject |-> FALSE, hasList |-> FALSE, messages |-> <<>>,
      lastSaved |-> "null"],
     [parses |-> TRUE, isObject |-> TRUE, hasList |-> FALSE, messages |-> <<>>,
      lastSaved |-> "file"]}
    \cup [parses : {TRUE}, isObject : {TRUE}, hasList : {TRUE},
          messages : ListsUpTo(ImportEntries, MaxImport), lastSaved : {"null", "file"}]

\* m && m.id && typeof m.text === 'string' && (m.role === 'user' || m.role === 'bot')
ValidEntry(m) ==
    m # NullEntry /\ m.id # NoId /\ m.text # NotAString /\ m.role \in {"user", "bot"}

\* the whole method runs in a try block whose catch returns false, also when
\* the exception comes from a watcher after the messages were replaced
ImportJson(msgs, ls, text, saveOk) ==
    IF ~text.parses THEN Unchanged(msgs, ls, "false")
    ELSE IF ~text.isObject \/ ~text.hasList THEN Unchanged(msgs, ls, "false")
    ELSE IF ~\A i \in DOMAIN text.messages : ValidEntry(text.messages[i])
         THEN Unchanged(msgs, ls, "false")
    ELSE LET c == Changed(text.messages,
                          IF text.lastSaved = "null" THEN "now" ELSE text.lastSaved,
                          "true", saveOk)
         IN  [c EXCEPT !.ret = IF c.threw THEN "false" ELSE "true", !.threw = FALSE]

(***************************************************************************)
(* State machine                                                           *)
(***************************************************************************)
NumPrompts(u) == Cardinality({i \in DOMAIN u : u[i].call = "prompt"})

\* what a step leaves in "last": the handler that ran (op), the call of
\* handleProviderChange it belongs to (epoch), the provider asked for, the
\* closure that was resumed (t: its prev, key, newKey, the await that settled
\* and the prompts shown before), the result of the await, the View calls and
\* prompt answers of the step, and whether the step left a validation in flight
Step(op, epoch, provider, t, result, fx) ==
    [op |-> op, epoch |-> epoch, provider |-> provider, prev |-> t.prev,
     phase |-> t.phase, result |-> result, key |-> t.key, newKey |-> t.newKey,
     prompts |-> t.prompts + NumPrompts(fx.ui), ui |-> fx.ui,
     answers |-> fx.answers, spawned |-> fx.spawn # {}]

NoTask(prev) == Task(0, prev, <<>>, "none", <<>>, 0)

NoFx == [ui |-> <<>>, answers |-> <<>>, spawn |-> {}]

\* main.js: the key of an earlier session, if any, is loaded into the service;
\* the router starts on eliza and the selector shows it
Init ==
    /\ stored \in Keys \cup {<<>>}
    /\ apiKey = stored
    /\ current = "eliza"
    /\ aiSelect = "eliza"
    /\ pending = {}
    /\ issued = 0
    /\ last = Step("init", 0, "", NoTask(""), "none", NoFx)
    /\ messages = <<Greeting>>
    /\ lastSaved = "now"
    /\ editingId = NoId
    /\ sending = 0

Apply(fx) ==
    /\ current' = fx.current
    /\ apiKey' = fx.apiKey
    /\ stored' = fx.stored
    /\ aiSelect' = fx.aiSelect
    /\ UNCHANGED chatVars

\* the change event of the selector (or any caller) runs handleProviderChange
RequestSwitch(provider, fromUser, retry) ==
    /\ issued < MaxSwitches
    /\ LET fx == HandleProviderChange(provider, issued + 1, fromUser, retry)
       IN  /\ Cardinality(pending \cup fx.spawn) <= MaxPending
           /\ Apply(fx)
           /\ pending' = pending \cup fx.spawn
           /\ last' = Step("handleProviderChange", issued + 1, provider,
                           NoTask(current), "none", fx)
    /\ issued' = issued + 1

\* the first validateKey call of closure t settles with result
FirstValidationSettles(t, result, retry, quotaOk) ==
    /\ t \in pending
    /\ t.phase = "first"
    /\ LET fx == AfterFirst(t, result, retry, quotaOk)
       IN  /\ Apply(fx)
           /\ pending' = (pending \ {t}) \cup fx.spawn
           /\ last' = Step("validated", t.epoch, "gemini", t, result, fx)
    /\ UNCHANGED issued

\* the validateKey call for the replacement key of closure t settles with result
RetryValidationSettles(t, result, quotaOk) ==
    /\ t \in pending
    /\ t.phase = "retry"
    /\ LET fx == AfterRetry(t, result, quotaOk)
       IN  /\ Apply(fx)
           /\ pending' = (pending \ {t}) \cup fx.spawn
           /\ last' = Step("validated", t.epoch, "gemini", t, result, fx)
    /\ UNCHANGED issued

(***************************************************************************)
(* The inputs of a step.  A prompt has an answer only in a step that shows *)
(* it, and localStorage.setItem succeeds or throws only in a step that     *)
(* calls it; elsewhere the input is fixed (Null, TRUE).                    *)
(***************************************************************************)
\* the first prompt is shown when gemini is asked for and no key is held
FirstAnswers(provider) ==
    IF provider = "gemini" /\ apiKey = <<>> /\ stored = <<>> THEN Answers ELSE {Null}

\* the retry prompt is shown in the same step when the first answer trims to
\* the empty key
RetryAnswersAtRequest(provider, fromUser) ==
    IF provider = "gemini" /\ apiKey = <<>> /\ stored = <<>>
       /\ ~Falsy(fromUser) /\ Trim(fromUser) = <<>>
    THEN Answers ELSE {Null}

\* how a validateKey call for key k can settle, over all that fetch can do
Results(k) == {ValidateKey(k, r) : r \in Responses}

\* the retry prompt is shown when the first validation resolves false
RetryAnswers(result) == IF result = "false" THEN Answers ELSE {Null}

\* setItem is called when the validation resolves true
QuotaOutcomes(result) == IF result = "true" THEN BOOLEAN ELSE {TRUE}

Next ==
    \/ \E p \in ProviderArgs : \E a \in FirstAnswers(p) :
           \E b \in RetryAnswersAtRequest(p, a) : RequestSwitch(p, a, b)
    \/ \E t \in pending : \E result \in Results(t.key) :
           \E b \in RetryAnswers(result), q \in QuotaOutcomes(result) :
               FirstValidationSettles(t, result, b, q)
    \/ \E t \in pending : \E result \in Results(t.newKey) :
           \E q \in QuotaOutcomes(result) : RetryValidationSettles(t, result, q)

Spec == Init /\ [][Next]_vars

\* The setting of the single-attempt scenarios: a switch is requested only
\* when no validation is in flight, and localStorage accepts every write.
NextSolo ==
    \/ \E p \in ProviderArgs : \E a \in FirstAnswers(p) :
           \E b \in RetryAnswersAtRequest(p, a) : pending = {} /\ RequestSwitch(p, a, b)
    \/ \E t \in pending : \E result \in Results(t.key) :
           \E b \in RetryAnswers(result) : FirstValidationSettles(t, result, b, TRUE)
    \/ \E t \in pending : \E result \in Results(t.newKey) :
           RetryValidationSettles(t, result, TRUE)

SpecSolo == Init /\ [][NextSolo]_vars

TypeOK ==
    /\ current \in Services
    /\ aiSelect \in Services
    /\ apiKey \in Keys \cup {<<>>}
    /\ stored \in Keys \cup {<<>>}
    /\ issued \in 0..MaxSwitches
    /\ Cardinality(pending) <= MaxPending
    /\ \A t \in pending : t.prev \in Services /\ t.epoch \in 1..issued

(***************************************************************************)
(* Properties                                                              *)
(***************************************************************************)
\* the step taken resumes a closure of a call of handleProviderChange that
\* is no longer the latest call
StaleResult == last'.op = "validated" /\ last'.epoch < issued

\* the View calls of u that name provider p (a selector update or an alert)
Naming(u, p) == {i \in DOMAIN u : u[i].call # "prompt" /\ u[i].arg = p}

\* C1: once a later switch has been requested, the validation result of an
\* older attempt never writes the active provider, whatever it resolves to.
C1_StaleNeverWritesActive ==
    [][StaleResult => current' = current]_vars

\* C2: once a later switch has been requested, the validation result of an
\* older attempt never writes or clears the stored or the in-memory key.
C2_StaleNeverWritesCredential ==
    [][StaleResult => (stored' = stored /\ apiKey' = apiKey)]_vars

\* C3: the validation result of a superseded attempt is discarded silently:
\* no alert, no prompt, no selector update, and no cell is written.
C3_StaleDiscardedSilently ==
    [][StaleResult =>
          /\ last'.ui = <<>>
          /\ last'.answers = <<>>
          /\ UNCHANGED <<current, apiKey, stored, aiSelect>>]_vars

\* C4: (scenario A) gemini is asked for with no key held, the prompt returns
\* the key K and the validation of K resolves true: gemini is active, K is the
\* stored key, and exactly one notification confirms gemini.
C4_FirstTimeSwitchConfirmed ==
    [][\A t \in pending :
          ( /\ t.phase = "first"
            /\ last.op = "handleProviderChange"
            /\ last.epoch = t.epoch
            /\ last.answers = <<t.key>>
            /\ last'.op = "validated"
            /\ last'.epoch = t.epoch
            /\ last'.result = "true" )
          => /\ current' = "gemini"
             /\ stored' = t.key
             /\ apiKey' = t.key
             /\ Cardinality(Naming(last'.ui, "gemini")) = 1]_vars

\* the closure that the step taken resumes
Resumes(t) == last'.op = "validated" /\ last'.epoch = t.epoch /\ last'.phase = t.phase

\* a closure captures as prev the provider that is active when
\* handleProviderChange is called
CapturesActive ==
    last'.op = "handleProviderChange" =>
        \A t \in pending' \ pending : t.prev = current /\ t.epoch = issued'

\* C5: (scenario D) when the first validation fails with a transport error,
\* the active provider goes back to the provider that was active when the
\* switch was requested, the stored and the in-memory key are cleared, the
\* network error is reported, and no retry prompt is shown.
C5_TransportFailureReverts ==
    [][/\ CapturesActive
       /\ \A t \in pending :
             (Resumes(t) /\ t.phase = "first" /\ last'.result = "throw")
             => /\ current' = t.prev
                /\ aiSelect' = t.prev
                /\ stored' = <<>>
                /\ apiKey' = <<>>
                /\ last'.ui = <<SetProviderUI(t.prev), Alert(MsgTransport, "")>>
                /\ last'.answers = <<>>
                /\ pending' = pending \ {t}]_vars

C5_Witness ==
    /\ last.op = "validated"
    /\ last.phase = "first"
    /\ last.result = "throw"
    /\ last.prev = "eliza"
    /\ current = "eliza"
    /\ apiKey = <<>>
    /\ NumPrompts(last.ui) = 0

\* C6: (scenario C) when the validation resolves false and then the
\* replacement key is rejected too, or the retry prompt is declined, the
\* active provider goes back to the previous provider, the stored and the
\* in-memory key are cleared, and the rejection is reported with the revert.
C6_RejectedReverts ==
    [][\A t \in pending :
          ( /\ Resumes(t)
            /\ last'.result = "false"
            /\ (t.phase = "first" => ~last'.spawned) )
          => /\ current' = t.prev
             /\ aiSelect' = t.prev
             /\ stored' = <<>>
             /\ apiKey' = <<>>
             /\ Len(last'.ui) >= 2
             /\ SubSeq(last'.ui, Len(last'.ui) - 1, Len(last'.ui))
                    = <<SetProviderUI(t.prev), Alert(MsgRejectedReverted, t.prev)>>
             /\ pending' = pending \ {t}]_vars

\* the second rejection of an attempt that started from a stored key
C6_Witness ==
    /\ last.op = "validated"
    /\ last.phase = "retry"
    /\ last.result = "false"
    /\ last.prompts = 1
    /\ last.newKey # last.key
    /\ current = last.prev
    /\ stored = <<>>

C9_MissingCredential ==
    [][( /\ last'.op = "handleProviderChange"
         /\ last'.provider = "gemini"
         /\ apiKey = <<>>
         /\ stored = <<>>
         /\ Len(last'.answers) >= 1
         /\ Falsy(last'.answers[1]) )
       => /\ UNCHANGED <<current, apiKey, stored, pending>>
          /\ aiSelect' = current
          /\ last'.ui = <<Alert(MsgEnterKey, ""), Prompt,
                          Alert(MsgNoKey, current), SetProviderUI(current)>>
          /\ last'.answers \in {<<Null>>, << <<>> >>}]_vars

C9_Witness ==
    /\ last.op = "handleProviderChange"
    /\ last.provider = "gemini"
    /\ last.answers = <<Null>>
    /\ current = "eliza"
    /\ pending = {}

\* C10: a switch request for the provider that is already the confirmed
\* active provider shows no prompt, starts no validation and leaves the
\* active provider and the keys unchanged.
C10_Idempotent ==
    [][( /\ last'.op = "handleProviderChange"
         /\ last'.provider = current
         /\ pending = {}
         /\ (current = "gemini" => (apiKey # <<>> /\ stored = apiKey)) )
       => /\ UNCHANGED <<current, apiKey, stored>>
          /\ pending' = {}
          /\ NumPrompts(last'.ui) = 0]_vars

\* the step that ends a call of handleProviderChange: the handler returned,
\* or its closure finished, with no validation of that call left in flight
Terminal == last.op \in {"handleProviderChange", "validated"} /\ ~last.spawned

\* C11: every switch request that is not superseded ends with a terminal
\* notification, a View call that names the resulting active provider
\* (confirmed or reverted); no request ends silently.
C11_NeverSilent ==
    (Terminal /\ last.epoch = issued) => Naming(last.ui, current) # {}

(***************************************************************************)
(* Validation that never answers.  validateKey awaits fetch with no abort  *)
(* signal and no timer, and the closure awaits validateKey with none       *)
(* either: when the remote service never answers, the promise never        *)
(* settles and the closure is never resumed.  The event loop resumes every *)
(* closure whose promise did settle, which is the fairness of SpecHang.    *)
(***************************************************************************)
\* the remote service never answers the validation request of closure t
FetchNeverAnswers(t) ==
    /\ t \in pending
    /\ t.phase \in {"first", "retry"}
    /\ pending' = (pending \ {t}) \cup {[t EXCEPT !.phase = "hung"]}
    /\ UNCHANGED <<current, apiKey, stored, aiSelect, issued, last>>
    /\ UNCHANGED chatVars

\* the continuations of the closures whose validation settled
Settles ==
    \/ \E t \in pending : \E result \in Results(t.key) :
           \E b \in RetryAnswers(result), q \in QuotaOutcomes(result) :
               FirstValidationSettles(t, result, b, q)
    \/ \E t \in pending : \E result \in Results(t.newKey) :
           \E q \in QuotaOutcomes(result) : RetryValidationSettles(t, result, q)

NextHang ==
    \/ \E p \in ProviderArgs : \E a \in FirstAnswers(p) :
           \E b \in RetryAnswersAtRequest(p, a) : RequestSwitch(p, a, b)
    \/ Settles
    \/ \E t \in pending : FetchNeverAnswers(t)

SpecHang == Init /\ [][NextHang]_vars /\ WF_vars(Settles)

\* the call of handleProviderChange numbered e has switched optimistically
\* and its closure has not finished
Tentative(e) == \E t \in pending : t.epoch = e

\* C12: every attempt that has tentatively activated its target eventually
\* reaches a terminal outcome, also when the validation call never answers.
C12_NoTentativeLimbo ==
    \A e \in 1..MaxSwitches : Tentative(e) ~> ~Tentative(e)

ValidatedKey == IF last'.phase = "retry" THEN last'.newKey ELSE last'.key

\* the step taken is the continuation of a validation of k that resolved true
ConfirmsKey(k) == last'.op = "validated" /\ last'.result = "true" /\ k = ValidatedKey

\* the persisted entry is written only with a key whose validation resolved true
PersistedOnlyConfirmed ==
    [][(stored' # stored /\ stored' # <<>>) => ConfirmsKey(stored')]_vars

\* C14: the cached credential (the key the next switch request reads: the
\* in-memory key or the persisted entry) is written only on confirmed success,
\* with a key whose validation resolved true.
C14_CachedOnlyConfirmed ==
    [][/\ (stored' # stored /\ stored' # <<>>) => ConfirmsKey(stored')
       /\ (apiKey' # apiKey /\ apiKey' # <<>>) => ConfirmsKey(apiKey')]_vars

(***************************************************************************)
(* validateKey on its own: every key, either proxy setting, and every      *)
(* outcome of fetch (any status a response can carry, or a rejection).     *)
(***************************************************************************)
HttpStatuses == 200..599
HttpResponses ==
    [threw : {FALSE}, status : HttpStatuses] \cup {[threw |-> TRUE, status |-> 0]}
ProxySettings == {LOCAL_PROXY, "http://localhost:8787"}

InitValidate ==
    /\ apiKey \in Keys \cup {<<>>}
    /\ last \in [op : {"fetch"}, proxy : ProxySettings, response : HttpResponses,
                 result : {"none"}]
    /\ current = "gemini"
    /\ aiSelect = "gemini"
    /\ stored = <<>>
    /\ pending = {}
    /\ issued = 0
    /\ messages = <<>>
    /\ lastSaved = "null"
    /\ editingId = NoId
    /\ sending = 0

\* svcG.validateKey() settles
ValidateKeyReturns ==
    /\ last.op = "fetch"
    /\ last' = [last EXCEPT !.op = "validateKey",
                            !.result = ValidateKeyVia(last.proxy, apiKey, last.response)]
    /\ UNCHANGED <<current, apiKey, stored, aiSelect, pending, issued>>
    /\ UNCHANGED chatVars

NextValidate == ValidateKeyReturns

SpecValidate == InitValidate /\ [][NextValidate]_vars

\* C15: for every remote response validation resolves false exactly for 401
\* and 403, resolves true exactly for 2xx, and fails with a transport error
\* for every other outcome (another status, a rejected fetch).
C15_Classification ==
    (last.op = "validateKey" /\ apiKey # <<>>) =>
        LET r == last.response
        IN  last.result = IF ~r.threw /\ r.status \in {401, 403} THEN "false"
                          ELSE IF ~r.threw /\ ResOk(r) THEN "true"
                          ELSE "throw"

\* the alerts among the View calls u
Alerts(u) == {i \in DOMAIN u : u[i].call = "alert"}

\* C16: a failure to persist the key is not a failure of the switch: when a
\* validation resolved true, the step that handles it leaves the target
\* active and the key in memory and shows no error, whether or not
\* localStorage took the write.
C16_PersistFailureHarmless ==
    [][(last'.op = "validated" /\ last'.result = "true") =>
           /\ current' = current
           /\ aiSelect' = aiSelect
           /\ apiKey' = apiKey
           /\ Alerts(last'.ui) = {}]_vars

\* C17: when the validation of the replacement key fails with a transport
\* error, the attempt reverts to the previous provider, clears the cached
\* credential, and is reported as a transport error, not as a rejected key.
C17_RetryTransportFailure ==
    [][\A t \in pending :
           (Resumes(t) /\ t.phase = "retry" /\ last'.result = "throw") =>
               /\ current' = t.prev
               /\ aiSelect' = t.prev
               /\ apiKey' = <<>>
               /\ stored' = <<>>
               /\ last'.ui = <<SetProviderUI(t.prev), Alert(MsgTransport, "")>>]_vars

\* the showings of the replacement-key prompt among the View calls u
RetryPrompts(u) ==
    {i \in DOMAIN u : u[i].call = "alert" /\ u[i].text = MsgRejectedRetry}

\* C18: exactly one retry.  The replacement-key prompt is shown at most once
\* in an attempt and validation is invoked at most twice: the prompt leaves
\* the attempt on its second validation, and the step that handles the second
\* validation shows no prompt, starts no validation, and reverts unless the
\* result is true.
C18_ExactlyOneRetry ==
    [][/\ Cardinality(RetryPrompts(last'.ui)) <= 1
       /\ (last'.op = "handleProviderChange" /\ RetryPrompts(last'.ui) # {}) =>
              \A t2 \in pending' \ pending : t2.phase = "retry"
       /\ \A t \in pending :
              /\ (Resumes(t) /\ t.phase = "first") =>
                     \A t2 \in pending' : t2.epoch = t.epoch => t2.phase = "retry"
              /\ (Resumes(t) /\ t.phase = "retry") =>
                     /\ NumPrompts(last'.ui) = 0
                     /\ ~\E t2 \in pending' : t2.epoch = t.epoch
                     /\ last'.result # "true" =>
                            current' = t.prev /\ aiSelect' = t.prev]_vars

\* a first-time key was rejected, the replacement key was rejected too, and
\* the attempt ended reverted after two prompts
C18_Witness ==
    /\ last.op = "validated"
    /\ last.phase = "retry"
    /\ last.result = "false"
    /\ last.prompts = 2
    /\ pending = {}
    /\ current = last.prev

\* C19: a request for a provider that needs no credential (eliza) makes it
\* active in the same step, with no prompt and no validation, confirms it by
\* setting the selector, and leaves the gemini credential as it was.
C19_NoCredentialSwitch ==
    [][(last'.op = "handleProviderChange" /\ last'.provider = "eliza") =>
           /\ current' = "eliza"
           /\ aiSelect' = "eliza"
           /\ last'.ui = <<SetProviderUI("eliza")>>
           /\ pending' = pending
           /\ apiKey' = apiKey
           /\ stored' = stored]_vars

\* eliza was asked for while gemini was active with a stored key
C19_Witness ==
    /\ last.op = "handleProviderChange"
    /\ last.provider = "eliza"
    /\ last.prev = "gemini"
    /\ current = "eliza"
    /\ stored # <<>>
    /\ apiKey # <<>>

\* C20: when a cached credential exists (in memory or persisted), a request
\* for gemini validates that key and shows no prompt first; a prompt is shown
\* only by a request made with no key held, or after a validation resolved
\* false.
C20_CachedKeyNoPrompt ==
    [][/\ (/\ last'.op = "handleProviderChange"
           /\ last'.provider = "gemini"
           /\ (apiKey # <<>> \/ stored # <<>>)) =>
              /\ NumPrompts(last'.ui) = 0
              /\ \E t \in pending' \ pending :
                     /\ t.epoch = last'.epoch
                     /\ t.phase = "first"
                     /\ t.key = (IF apiKey # <<>> THEN apiKey ELSE stored)
                     /\ apiKey' = t.key
       /\ NumPrompts(last'.ui) > 0 =>
              \/ last'.op = "handleProviderChange" /\ apiKey = <<>> /\ stored = <<>>
              \/ last'.op = "validated" /\ last'.result = "false"]_vars

\* gemini was asked for with a key stored: no prompt, the validation of the
\* stored key is in flight
C20_Witness ==
    /\ last.op = "handleProviderChange"
    /\ last.provider = "gemini"
    /\ last.prompts = 0
    /\ last.spawned
    /\ stored # <<>>
    /\ \E t \in pending : t.epoch = last.epoch /\ t.key = stored

\* the positions in u of the tentative notification: the selector is set to gemini
TentativeCalls(u) == {i \in DOMAIN u : u[i] = SetProviderUI("gemini")}

\* the positions in u of the alerts that report a revert after validation
RevertAlerts(u) ==
    {i \in DOMAIN u : u[i].call = "alert" /\ u[i].text \in {MsgRejectedReverted, MsgTransport}}

\* C21: two-phase notification order.  Every step that leaves a validation in
\* flight has made gemini active and set the selector to gemini in that same
\* step, before the result is known; a revert alert of a step comes after the
\* tentative notification; a request for eliza makes one notification only.
C21_TentativeBeforeTerminal ==
    [][/\ \A t \in pending' \ pending :
              /\ current' = "gemini"
              /\ aiSelect' = "gemini"
              /\ TentativeCalls(last'.ui) # {}
       /\ last'.op = "handleProviderChange" =>
              \A i \in RevertAlerts(last'.ui) :
                  \E j \in TentativeCalls(last'.ui) : j < i
       /\ (last'.op = "handleProviderChange" /\ last'.provider = "eliza") =>
              Len(last'.ui) = 1 /\ TentativeCalls(last'.ui) = {}]_vars

\* gemini was asked for, the user typed a key, and the selector shows gemini
\* while the validation is in flight
C21_Witness ==
    /\ last.op = "handleProviderChange"
    /\ last.provider = "gemini"
    /\ last.prompts = 1
    /\ last.spawned
    /\ current = "gemini"
    /\ aiSelect = "gemini"
    /\ \E t \in pending : t.epoch = last.epoch /\ t.phase = "first"

\* C24: whenever no validation is in flight, gemini is the active provider
\* only with a non-empty key.
C24_ActiveGeminiHasKey ==
    (pending = {} /\ current = "gemini") => apiKey # <<>>

\* C25: whenever no validation is in flight, the in-memory gemini key and the
\* persisted entry agree: both empty, or both the same key.
C25_KeyAgreesWithStore == pending = {} => apiKey = stored

\* the prompt answer a is cancelled, empty, or whitespace only
EmptyAfterTrim(a) == Falsy(a) \/ Trim(a) = <<>>

\* C26: gemini is never tentatively activated, and no validation is started,
\* with an empty candidate key: a first-prompt answer that is empty after
\* trimming is handled as a missing credential, with the active provider
\* unchanged and no retry prompt.
C26_BlankAnswerIsMissingKey ==
    [][/\ \A t \in pending' : t.phase = "first" => t.key # <<>>
       /\ (/\ last'.op = "handleProviderChange"
           /\ last'.provider = "gemini"
           /\ apiKey = <<>> /\ stored = <<>>
           /\ EmptyAfterTrim(last'.answers[1])) =>
              /\ current' = current
              /\ aiSelect' = current
              /\ apiKey' = <<>>
              /\ pending' = pending
              /\ RetryPrompts(last'.ui) = {}
              /\ last'.ui = <<Alert(MsgEnterKey, ""), Prompt,
                              Alert(MsgNoKey, current), SetProviderUI(current)>>]_vars

(***************************************************************************)
(* The chat: handleSend and the message handlers of the Controller.  The   *)
(* reply of eliza, and the rejection of gemini's reply for a missing key,  *)
(* settle without a network call, so the rest of handleSend runs before    *)
(* any other handler; a gemini reply with a key is awaited on fetch.       *)
(***************************************************************************)
\* getBotResponse(text) of eliza.js: some text that is not empty
ElizaText == <<"eliza reply">>

ElizaReply(text) == [ok |-> TRUE, text |-> ElizaText, message |-> ""]

Fallback == <<"sorry, i could not generate a response.">>

\* data.candidates[0].content.parts[0].text of a gemini answer: missing, or a string
ReplyBodies == {Null, <<" ">>, <<"a">>}

\* GeminiService.reply once fetch settled: a rejected fetch and a response
\* that is not ok throw (the status and body that follow "gemini error" in the
\* message are left out); otherwise the trimmed text, or the fallback text
GeminiReply(r, body) ==
    IF r.threw
    THEN [ok |-> FALSE, text |-> <<>>,
          message |-> IF LOCAL_PROXY = "" THEN "network error (possibly CORS)"
                      ELSE "fetch failed"]
    ELSE IF ~ResOk(r)
    THEN [ok |-> FALSE, text |-> <<>>,
          message |-> IF LOCAL_PROXY = "" THEN "gemini error" ELSE "proxy error"]
    ELSE [ok |-> TRUE, message |-> "",
          text |-> IF ~Falsy(body) /\ Trim(body) # <<>> THEN Trim(body) ELSE Fallback]

MissingKey == [ok |-> FALSE, text |-> <<>>, message |-> "missing gemini api key"]

\* `(error: ${err?.message || 'ai call failed'})`
ErrorText(message) ==
    <<"(error: ", IF message = "" THEN "ai call failed" ELSE message, ")">>

\* what a handler did: the new state of the chat, the value the Model method
\* returned, whether the watchers were notified, whether an exception left
\* the handler, and whether a reply was requested from the provider
Outcome(m, editing, inFlight, requested) ==
    [messages |-> m.messages, lastSaved |-> m.lastSaved, editingId |-> editing,
     sending |-> inFlight, ret |-> m.ret, wrote |-> m.wrote, notified |-> m.notified,
     threw |-> m.threw, requested |-> requested]

\* the try/catch of handleSend after the reply settled with outcome o: the
\* reply text is added; when that throws, or the reply failed, the catch adds
\* the error message
BotReply(msgs, ls, o, saveOk) ==
    IF o.ok
    THEN LET a == AddMessage(msgs, ls, o.text, "bot", saveOk)
         IN  IF a.threw
             THEN AddMessage(a.messages, a.lastSaved, ErrorText("Invalid time value"),
                             "bot", saveOk)
             ELSE a
    ELSE AddMessage(msgs, ls, ErrorText(o.message), "bot", saveOk)

HandleSend(text, saveOk) ==
    LET trimmed == Trim(StringOr(text))
    IN  IF trimmed = <<>>
        THEN Outcome(Unchanged(messages, lastSaved, "none"), editingId, sending, FALSE)
        ELSE IF editingId # NoId
        THEN LET u == UpdateMessage(messages, lastSaved, editingId, trimmed, saveOk)
             IN  Outcome(u, IF u.threw THEN editingId ELSE NoId, sending, FALSE)
        ELSE LET a == AddMessage(messages, lastSaved, trimmed, "user", saveOk)
             IN  IF a.threw THEN Outcome(a, editingId, sending, FALSE)
                 ELSE IF current = "eliza"
                 THEN Outcome(BotReply(a.messages, a.lastSaved, ElizaReply(trimmed), saveOk),
                              editingId, sending, TRUE)
                 ELSE IF apiKey = <<>>
                 THEN Outcome(BotReply(a.messages, a.lastSaved, MissingKey, saveOk),
                              editingId, sending, TRUE)
                 ELSE Outcome(a, editingId, sending + 1, TRUE)

\* the continuation of "await this.ai.reply(trimmed)" for a gemini reply
ReplyContinues(o, saveOk) ==
    Outcome(BotReply(messages, lastSaved, o, saveOk), editingId, sending - 1, FALSE)

\* "simple prompt-based editing when clicking the edit button"
HandleEditPrompt(id, next, saveOk) ==
    LET i == Find(messages, id)
    IN  IF i = 0 \/ messages[i].role # "user" \/ next = Null
        THEN Outcome(Unchanged(messages, lastSaved, "none"), editingId, sending, FALSE)
        ELSE Outcome(UpdateMessage(messages, lastSaved, id, next, saveOk),
                     editingId, sending, FALSE)

HandleDelete(id, confirmed, saveOk) ==
    IF ~confirmed
    THEN Outcome(Unchanged(messages, lastSaved, "none"), editingId, sending, FALSE)
    ELSE Outcome(DeleteMessage(messages, lastSaved, id, saveOk), editingId, sending, FALSE)

\* clearAll, then cancelInlineEdit
HandleClear(confirmed, saveOk) ==
    IF ~confirmed
    THEN Outcome(Unchanged(messages, lastSaved, "none"), editingId, sending, FALSE)
    ELSE Outcome(ClearAll(messages, lastSaved, saveOk), NoId, sending, FALSE)

\* exportJson reads the messages and lastSaved; download changes nothing
HandleExport == Outcome(Unchanged(messages, lastSaved, "json"), editingId, sending, FALSE)

HandleImport(json, saveOk) ==
    Outcome(ImportJson(messages, lastSaved, json, saveOk), editingId, sending, FALSE)

\* [...msgs].reverse().find(m => m.role === 'user'): the position of the last
\* user message, 0 if there is none
LastUser(msgs) ==
    IF \E i \in DOMAIN msgs : msgs[i].role = "user"
    THEN CHOOSE i \in DOMAIN msgs :
             msgs[i].role = "user" /\ \A j \in DOMAIN msgs : msgs[j].role = "user" => j <= i
    ELSE 0

EditLastMessageInline ==
    LET i == LastUser(messages)
    IN  Outcome(Unchanged(messages, lastSaved, "none"),
                IF i = 0 THEN editingId ELSE messages[i].id, sending, FALSE)

CancelInlineEdit == Outcome(Unchanged(messages, lastSaved, "none"), NoId, sending, FALSE)

\* the keys of localStorage: the Model saves the chat under its own key
\* (new Model() in main.js takes the default), the gemini key has another
ModelKey_SharesGeminiKey == "ai_gemini_api_key"

ModelKey == "chat_v1"

GeminiKeyName == "ai_gemini_api_key"

\* JSON.stringify(payload) of save()
ChatPayload == <<"{\"messages\":[...],\"lastSaved\":...}">>

\* one handler of the chat ran: its outcome becomes the state of the chat.  The
\* provider, the selector and the in-memory key are not written by any of them;
\* a save() that succeeded wrote localStorage under the key of the Model.
ChatStep(o) ==
    /\ messages' = o.messages
    /\ lastSaved' = o.lastSaved
    /\ editingId' = o.editingId
    /\ sending' = o.sending
    /\ stored' = IF o.wrote /\ ModelKey = GeminiKeyName THEN ChatPayload ELSE stored
    /\ UNCHANGED <<current, apiKey, aiSelect, pending, issued, last>>

\* the ids of the messages
Ids(msgs) == {msgs[i].id : i \in DOMAIN msgs}

\* the ids the edit and delete buttons of the message list carry: renderItem
\* gives them to user messages only
ButtonIds(msgs) == {msgs[i].id : i \in {j \in DOMAIN msgs : msgs[j].role = "user"}}

\* how a gemini reply can settle, over all that fetch can do
GeminiOutcomes == {GeminiReply(r, body) : r \in Responses, body \in ReplyBodies}

\* the form is submitted with text in the input
Send(text, saveOk) ==
    /\ sending < MaxSending
    /\ Len(messages) + 2 * sending + 2 <= MaxMsgs
    /\ ChatStep(HandleSend(text, saveOk))

\* the gemini reply awaited by a call of handleSend settles
ReplySettles(o, saveOk) ==
    /\ sending > 0
    /\ ChatStep(ReplyContinues(o, saveOk))

EditPrompt(id, next, saveOk) == ChatStep(HandleEditPrompt(id, next, saveOk))

Delete(id, confirmed, saveOk) == ChatStep(HandleDelete(id, confirmed, saveOk))

Clear(confirmed, saveOk) == ChatStep(HandleClear(confirmed, saveOk))

Export == ChatStep(HandleExport)

Import(json, saveOk) == ChatStep(HandleImport(json, saveOk))

EditLast == ChatStep(EditLastMessageInline)

CancelEdit == ChatStep(CancelInlineEdit)

\* A chat session.  It starts where the switch workflow leaves the router
\* with no validation in flight: eliza active, gemini active with a stored
\* key, or gemini active with its key cleared (C24_ActiveGeminiHasKey).  The
\* chat is the greeting.  localStorage accepts every write.
InitChat ==
    /\ current \in Services
    /\ apiKey \in {<<>>, <<"a">>}
    /\ current = "eliza" => apiKey = <<>>
    /\ stored = apiKey
    /\ aiSelect = current
    /\ pending = {}
    /\ issued = 0
    /\ last = Step("init", 0, "", NoTask(""), "none", NoFx)
    /\ messages = <<Greeting>>
    /\ lastSaved = "now"
    /\ editingId = NoId
    /\ sending = 0

\* the texts typed into the input
Inputs == StrUpTo(1)

NextChat ==
    \/ \E text \in Inputs : Send(text, TRUE)
    \/ \E o \in GeminiOutcomes : ReplySettles(o, TRUE)
    \/ \E id \in ButtonIds(messages), next \in Answers : EditPrompt(id, next, TRUE)
    \/ \E id \in ButtonIds(messages), confirmed \in BOOLEAN : Delete(id, confirmed, TRUE)
    \/ \E confirmed \in BOOLEAN : Clear(confirmed, TRUE)
    \/ Export
    \/ \E json \in JsonTexts : Import(json, TRUE)
    \/ EditLast
    \/ CancelEdit

SpecChat == InitChat /\ [][NextChat]_vars

\* C22: sending a message, the reply of the provider (successful or
\* failing), and the message operations (edit, delete, clear, import, export)
\* leave the active provider and the cached credential (in memory and
\* persisted) unchanged.
C22_ChatLeavesProviderAndKey ==
    [][current' = current /\ apiKey' = apiKey /\ stored' = stored]_vars

\* with gemini active and a key held, a message was sent, the call of the
\* provider failed, and the error message was added as the reply
C22_Witness ==
    /\ current = "gemini"
    /\ apiKey # <<>>
    /\ stored = apiKey
    /\ sending = 0
    /\ Len(messages) >= 2
    /\ messages[Len(messages)].role = "bot"
    /\ messages[Len(messages)].text = ErrorText("gemini error")
    /\ messages[Len(messages) - 1].role = "user"

\* the last message of msgs is a message of role with text
EndsWith(msgs, role, text) ==
    /\ msgs # <<>>
    /\ msgs[Len(msgs)].role = role
    /\ msgs[Len(msgs)].text = text

\* the step taken is handleSend(text) with text that is not empty after trimming
Sends(text) == Send(text, TRUE) /\ Trim(StringOr(text)) # <<>>

\* what C23 asks of a step
SendThenOneReply ==
    /\ \A text \in Inputs : (Sends(text) /\ editingId = NoId) =>
           LET o == HandleSend(text, TRUE)
               n == Len(messages)
           IN  /\ ~o.threw
               /\ o.requested
               /\ SubSeq(messages', 1, n) = messages
               /\ messages'[n + 1].role = "user"
               /\ messages'[n + 1].text = Trim(text)
               /\ \/ sending' = sending + 1 /\ Len(messages') = n + 1
                  \/ /\ sending' = sending
                     /\ Len(messages') = n + 2
                     /\ messages'[n + 2].role = "bot"
    /\ \A o \in GeminiOutcomes : ReplySettles(o, TRUE) =>
           /\ ~ReplyContinues(o, TRUE).threw
           /\ SubSeq(messages', 1, Len(messages)) = messages
           /\ Len(messages') = Len(messages) + 1
           /\ EndsWith(messages', "bot", IF o.ok THEN o.text ELSE ErrorText(o.message))

\* C23: sending a non-empty message while no inline edit is active appends
\* the user message and, when the reply call of the active provider completes,
\* exactly one bot message after it: the reply text, or an "(error: ...)"
\* message when the call failed; no exception leaves the handler.
C23_SendThenOneReply == [][SendThenOneReply]_vars

\* C23 in the steps that start and end with messages the view can render
C23_WhenRenderable ==
    [][(~RenderThrows(messages) /\ ~RenderThrows(messages')) => SendThenOneReply]_vars

\* the ids and roles of msgs, in order
Shape(msgs) == [i \in DOMAIN msgs |-> <<msgs[i].id, msgs[i].role>>]

\* what C27 asks of a step
SubmitCommitsEdit ==
    \A text \in Inputs : (Send(text, TRUE) /\ editingId # NoId) =>
        IF Trim(StringOr(text)) = <<>>
        THEN UNCHANGED <<messages, lastSaved, editingId, sending>>
        ELSE LET o == HandleSend(text, TRUE)
             IN  /\ editingId' = NoId
                 /\ Shape(messages') = Shape(messages)
                 /\ sending' = sending
                 /\ ~o.requested
                 /\ ~o.threw

\* handleSend with text that is empty after trimming changes nothing in the
\* current state
EmptySubmitChangesNothing ==
    \A text \in Inputs \cup {Null} :
        Trim(StringOr(text)) = <<>> =>
            HandleSend(text, TRUE)
                = Outcome(Unchanged(messages, lastSaved, "none"), editingId, sending, FALSE)

\* C27: while an inline edit is active, submitting non-empty text commits the
\* edit instead of sending: no message is added, no reply is requested, and
\* afterwards no edit is active, whether or not the edited message still
\* exists; submitting empty text changes nothing.
C27_SubmitCommitsEdit == []EmptySubmitChangesNothing /\ [][SubmitCommitsEdit]_vars

\* C27 in the steps that start and end with messages the view can render
C27_WhenRenderable ==
    /\ []EmptySubmitChangesNothing
    /\ [][(~RenderThrows(messages) /\ ~RenderThrows(messages')) => SubmitCommitsEdit]_vars

\* what C28 asks of the call updateMessage(id, newText) in the step taken
UpdatesAsClaimed(id, newText) ==
    LET u == UpdateMessage(messages, lastSaved, id, newText, TRUE)
        i == Find(messages, id)
        t == Trim(StringOr(newText))
    IN  IF i = 0 \/ messages[i].role # "user" \/ t = <<>>
        THEN u.ret = "false" /\ ~u.notified /\ ~u.threw /\ messages' = messages
        ELSE /\ u.ret = "true"
             /\ ~u.threw
             /\ messages' = [messages EXCEPT ![i].text = t, ![i].edited = TRUE]

\* the steps that call updateMessage: the edit prompt answered, and a submit
\* while an inline edit is active
UpdateMessageAsClaimed ==
    /\ \A id \in ButtonIds(messages), next \in Answers :
           (EditPrompt(id, next, TRUE) /\ next # Null) => UpdatesAsClaimed(id, next)
    /\ \A text \in Inputs :
           (Sends(text) /\ editingId # NoId) => UpdatesAsClaimed(editingId, Trim(text))

\* the calls of updateMessage that C28 says return false do so in the current
\* state and leave the model as it is: the ids in use, an id not in use, and
\* every text a prompt or the input can hold
UpdateRejects ==
    \A id \in Ids(messages) \cup {editingId, MakeId(messages)}, newText \in Str :
        LET u == UpdateMessage(messages, lastSaved, id, newText, TRUE)
            i == Find(messages, id)
        IN  (i = 0 \/ messages[i].role # "user" \/ Trim(newText) = <<>>) =>
                u = Unchanged(messages, lastSaved, "false")

\* C28: updateMessage changes only user messages: for an id that is unknown
\* or belongs to a bot message, or new text that is empty after trimming, it
\* returns false, changes no message and notifies no observer; otherwise it
\* replaces that message's text, marks it edited, and returns true.
C28_UpdateMessage == []UpdateRejects /\ [][UpdateMessageAsClaimed]_vars

\* C28 in the steps that start and end with messages the view can render
C28_WhenRenderable ==
    /\ []UpdateRejects
    /\ [][(~RenderThrows(messages) /\ ~RenderThrows(messages')) => UpdateMessageAsClaimed]_vars

\* a valid message as C29 lists it: id present, string text, role user or bot
ListedAsValid(m) ==
    m # NullEntry /\ m.id # NoId /\ m.text # NotAString /\ m.role \in {"user", "bot"}

\* the input that C29 says importJson refuses: not parseable, no messages
\* list, or an entry that is not a valid message
Refused(json) ==
    \/ ~json.parses
    \/ ~json.isObject
    \/ ~json.hasList
    \/ \E i \in DOMAIN json.messages : ~ListedAsValid(json.messages[i])

\* in the current state importJson returns false for every refused input and
\* leaves the model as it is
ImportRejects ==
    \A json \in JsonTexts :
        Refused(json) =>
            ImportJson(messages, lastSaved, json, TRUE) = Unchanged(messages, lastSaved, "false")

\* a step that imports an input that is not refused replaces the messages and
\* returns true
ImportAccepts ==
    \A json \in JsonTexts :
        (Import(json, TRUE) /\ ~Refused(json)) =>
            /\ ImportJson(messages, lastSaved, json, TRUE).ret = "true"
            /\ messages' = json.messages

\* C29: importJson is all-or-nothing: for an input that is not parseable, has
\* no messages list, or holds an entry that is not a valid message, it returns
\* false and leaves the messages and lastSaved unchanged; otherwise it
\* replaces the whole message list and returns true.
C29_ImportAllOrNothing == []ImportRejects /\ [][ImportAccepts]_vars

\* C29 for the inputs whose messages the view can render
C29_WhenRenderable ==
    /\ []ImportRejects
    /\ [][~RenderThrows(messages') => ImportAccepts]_vars

====
